---- MODULE Spec2Model ----
(***************************************************************************)
(* Authorization-scoped search and listing of lora-app-server:             *)
(*   storage.GlobalSearch  (src/unnamed/part_000)                          *)
(*   ApplicationAPI        (src/internal/api/application.go)               *)
(* Strings are sequences of one-character strings.  A nullable column is   *)
(* <<>> (NULL) or <<v>>.                                                   *)
(***************************************************************************)
EXTENDS Integers, Sequences, FiniteSets, TLC

\* ------------------------------------------------------------------ bounds
MaxQueryLen == 1
MaxLimit == 2
MaxOffset == 1
MaxApps == 2
MaxInitApps == 1
MaxWritesBetweenReads == 1
MaxFollowUps == 2

\* --------------------------------------------------------------- constants
\* lorawan.EUI64: eight bytes
EUILen == 8

\* ----------------------------------------------------------------- strings
Null == <<>>
Some(v) == <<v>>

UpperLetters == <<"A", "B">>
LowerLetters == <<"a", "b">>
Digits == {"0", "1", "2", "3", "4", "5", "6", "7", "8", "9"}

LowerChar(c) ==
  IF \E i \in 1..Len(UpperLetters) : UpperLetters[i] = c
  THEN LowerLetters[CHOOSE i \in 1..Len(UpperLetters) : UpperLetters[i] = c]
  ELSE c

Lower(s) == [i \in 1..Len(s) |-> LowerChar(s[i])]

\* pg_trgm keeps only alphanumeric characters in a word
WordChars ==
  Digits \cup { LowerLetters[i] : i \in 1..Len(LowerLetters) }
         \cup { UpperLetters[i] : i \in 1..Len(UpperLetters) }
         \cup {"c", "d", "e", "f"}

IsWordChar(c) == c \in WordChars

RECURSIVE SplitWords(_, _, _)
\* the words of s: its maximal runs of word characters
SplitWords(s, cur, acc) ==
  IF s = <<>> THEN (IF cur = <<>> THEN acc ELSE acc \cup {cur})
  ELSE IF IsWordChar(Head(s))
       THEN SplitWords(Tail(s), Append(cur, Head(s)), acc)
       ELSE SplitWords(Tail(s), <<>>, IF cur = <<>> THEN acc ELSE acc \cup {cur})

Words(s) == SplitWords(s, <<>>, {})

\* each word is padded with two blanks before and one after
Padded(w) == <<" ", " ">> \o w \o <<" ">>

Trigrams(s) ==
  UNION { { SubSeq(Padded(w), i, i + 2) : i \in 1..(Len(w) + 1) } : w \in Words(Lower(s)) }

RECURSIVE GCD(_, _)
GCD(a, b) == IF b = 0 THEN a ELSE GCD(b, a % b)

\* a score is a fraction <<n, d>> in lowest terms, 0 is <<0, 1>>
Frac(n, d) == IF n = 0 THEN <<0, 1>> ELSE <<n \div GCD(n, d), d \div GCD(n, d)>>

ScoreLess(x, y) == x[1] * y[2] < y[1] * x[2]

Greatest(x, y) == IF ScoreLess(x, y) THEN y ELSE x

\* similarity(a, b) of pg_trgm: shared trigrams over all trigrams
similarity(a, b) ==
  LET t1 == Trigrams(a)
      t2 == Trigrams(b)
      common == Cardinality(t1 \cap t2)
  IN  IF t1 = {} \/ t2 = {} THEN <<0, 1>>
      ELSE Frac(common, Cardinality(t1) + Cardinality(t2) - common)

HexDigits == <<"0", "1", "2", "3", "4", "5", "6", "7", "8", "9", "a", "b", "c", "d", "e", "f">>

RECURSIVE encode(_)
\* encode(bytes, 'hex')
encode(bytes) ==
  IF bytes = <<>> THEN <<>>
  ELSE <<HexDigits[(Head(bytes) \div 16) + 1], HexDigits[(Head(bytes) % 16) + 1]>>
         \o encode(Tail(bytes))

RECURSIVE LikeMatch(_, _)
\* s LIKE p: % is any run of characters, _ is any one character
LikeMatch(s, p) ==
  IF p = <<>> THEN s = <<>>
  ELSE IF Head(p) = "%"
       THEN LikeMatch(s, Tail(p)) \/ (s # <<>> /\ LikeMatch(Tail(s), p))
       ELSE /\ s # <<>>
            /\ (Head(p) = "_" \/ Head(p) = Head(s))
            /\ LikeMatch(Tail(s), Tail(p))

ilike(s, p) == LikeMatch(Lower(s), Lower(p))

\* the raw text t occurs in s, letter case ignored
ContainsFold(s, t) ==
  \E i \in 0..(Len(s) - Len(t)) : SubSeq(Lower(s), i + 1, i + Len(t)) = Lower(t)

\* ------------------------------------------------------------------ store
Usernames == {"alice", "bob"}
Orgs == {1, 2}
Bytes == {26, 171}
\* 1a1a1a1a1a1a1a1a and abababababababab
EUIs == { [ i \in 1..EUILen |-> b ] : b \in Bytes }
AppNames == {<<"a">>, <<"b">>}
GatewayNames == {<<"b">>}
DeviceNames == {<<"a", "B">>}
QueryChars == {"a", "B", "_", "%"}

RECURSIVE SeqsUpTo(_, _)
SeqsUpTo(S, n) ==
  IF n = 0 THEN {<<>>}
  ELSE SeqsUpTo(S, n - 1) \cup { Append(s, c) : s \in { t \in SeqsUpTo(S, n - 1) : Len(t) = n - 1 }, c \in S }

Queries == SeqsUpTo(QueryChars, MaxQueryLen)
Limits == (0 - 1)..MaxLimit
Offsets == (0 - 1)..MaxOffset

VARIABLES
  user,               \* table "user": rows [id, username]
  organization,       \* table organization: rows [id, name]
  organization_user,  \* table organization_user: rows [organization_id, user_id]
  application,        \* table application: rows [id, name, organization_id]
  device,             \* table device: rows [dev_eui, name, application_id]
  gateway,            \* table gateway: rows [mac, name, organization_id]
  integration,        \* table integration: rows [application_id, kind, settings]
  nextAppID,          \* the application id sequence
  search,             \* the GlobalSearch call under observation and what it returned
  later,              \* the calls the same caller made after it, on the same store
  list,               \* the ApplicationAPI.List call in flight, or the last one
  op                  \* the ApplicationAPI operation that returned last, List apart

db == <<user, organization, organization_user, application, device, gateway, integration>>
vars == <<user, organization, organization_user, application, device, gateway, integration,
          nextAppID, search, later, list, op>>

\* ----------------------------------------------------------- GlobalSearch
\* left join organization_user ou on ou.organization_id = o.id
\* left join "user" u on u.id = ou.user_id
LeftJoinUser(o) ==
  LET ous == { ou \in organization_user : ou.organization_id = o.id }
  IN  IF ous = {} THEN { [ou |-> Null, u |-> Null] }
      ELSE UNION { LET us == { u \in user : u.id = ou.user_id }
                   IN  IF us = {} THEN { [ou |-> Some(ou), u |-> Null] }
                       ELSE { [ou |-> Some(ou), u |-> Some(u)] : u \in us }
                   : ou \in ous }

\* faulty variant: the username is not compared, any member row passes
VisibleWhereAnyMember(j, globalAdmin, username) ==
  globalAdmin = TRUE \/ j.u # Null

\* faulty variant: the admin flag is not consulted
VisibleWhereNoAdmin(j, globalAdmin, username) ==
  j.u # Null /\ j.u[1].username = username

\* ($3 = true or u.username = $4); a NULL username compares to unknown
VisibleWhere(j, globalAdmin, username) ==
  globalAdmin = TRUE \/ (j.u # Null /\ j.u[1].username = username)

\* query := "%" + search + "%"
LikePattern(searchText) == <<"%">> \o searchText \o <<"%">>

DeviceSelect(username, globalAdmin, searchText) ==
  { [ join |-> j,
      row |-> [ kind |-> "device",
                score |-> Greatest(similarity(d.name, searchText),
                                   similarity(encode(d.dev_eui), searchText)),
                organization_id |-> Some(o.id),
                organization_name |-> Some(o.name),
                application_id |-> Some(a.id),
                application_name |-> Some(a.name),
                device_dev_eui |-> Some(d.dev_eui),
                device_name |-> Some(d.name),
                gateway_mac |-> Null,
                gateway_name |-> Null ] ] :
    <<d, a, o, j>> \in
      { t \in UNION { UNION { UNION { { <<d, a, o, j>> : j \in LeftJoinUser(o) }
                                      : o \in { o \in organization : o.id = a.organization_id } }
                              : a \in { a \in application : a.id = d.application_id } }
                      : d \in device } :
          /\ VisibleWhere(t[4], globalAdmin, username)
          /\ (\/ ilike(t[1].name, LikePattern(searchText))
              \/ ilike(encode(t[1].dev_eui), LikePattern(searchText))) } }

GatewaySelect(username, globalAdmin, searchText) ==
  { [ join |-> j,
      row |-> [ kind |-> "gateway",
                score |-> Greatest(similarity(g.name, searchText),
                                   similarity(encode(g.mac), searchText)),
                organization_id |-> Some(o.id),
                organization_name |-> Some(o.name),
                application_id |-> Null,
                application_name |-> Null,
                device_dev_eui |-> Null,
                device_name |-> Null,
                gateway_mac |-> Some(g.mac),
                gateway_name |-> Some(g.name) ] ] :
    <<g, o, j>> \in
      { t \in UNION { UNION { { <<g, o, j>> : j \in LeftJoinUser(o) }
                              : o \in { o \in organization : o.id = g.organization_id } }
                      : g \in gateway } :
          /\ VisibleWhere(t[3], globalAdmin, username)
          /\ (\/ ilike(t[1].name, LikePattern(searchText))
              \/ ilike(encode(t[1].mac), LikePattern(searchText))) } }

OrganizationSelect(username, globalAdmin, searchText) ==
  { [ join |-> j,
      row |-> [ kind |-> "organization",
                score |-> similarity(o.name, searchText),
                organization_id |-> Some(o.id),
                organization_name |-> Some(o.name),
                application_id |-> Null,
                application_name |-> Null,
                device_dev_eui |-> Null,
                device_name |-> Null,
                gateway_mac |-> Null,
                gateway_name |-> Null ] ] :
    <<o, j>> \in
      { t \in UNION { { <<o, j>> : j \in LeftJoinUser(o) } : o \in organization } :
          /\ VisibleWhere(t[2], globalAdmin, username)
          /\ ilike(t[1].name, LikePattern(searchText)) } }

ApplicationSelect(username, globalAdmin, searchText) ==
  { [ join |-> j,
      row |-> [ kind |-> "application",
                score |-> similarity(a.name, searchText),
                organization_id |-> Some(o.id),
                organization_name |-> Some(o.name),
                application_id |-> Some(a.id),
                application_name |-> Some(a.name),
                device_dev_eui |-> Null,
                device_name |-> Null,
                gateway_mac |-> Null,
                gateway_name |-> Null ] ] :
    <<a, o, j>> \in
      { t \in UNION { UNION { { <<a, o, j>> : j \in LeftJoinUser(o) }
                              : o \in { o \in organization : o.id = a.organization_id } }
                      : a \in application } :
          /\ VisibleWhere(t[3], globalAdmin, username)
          /\ ilike(t[1].name, LikePattern(searchText)) } }

\* faulty variant: union all, every joined row is kept
UnionAll(tagged) == tagged

\* union: joined rows that select the same columns are one row
Union(tagged) ==
  { t \in tagged : t = CHOOSE x \in tagged : x.row = t.row }

Selected(username, globalAdmin, searchText) ==
  Union(DeviceSelect(username, globalAdmin, searchText)
        \cup GatewaySelect(username, globalAdmin, searchText)
        \cup OrganizationSelect(username, globalAdmin, searchText)
        \cup ApplicationSelect(username, globalAdmin, searchText))

\* faulty variant: order by score asc
TopAscending(rows) == { t \in rows : \A x \in rows : ~ScoreLess(x.row.score, t.row.score) }

\* order by score desc: the rows that may come next are those of greatest score
Top(rows) == { t \in rows : \A x \in rows : ~ScoreLess(t.row.score, x.row.score) }

RECURSIVE OrderLimitOffset(_, _, _)
\* order by score desc limit $5 offset $6: every page the ordering allows
\* (rows of equal score come in any order)
OrderLimitOffset(rows, limit, offset) ==
  IF rows = {} \/ limit = 0 THEN {<<>>}
  ELSE UNION { IF offset > 0
               THEN OrderLimitOffset(rows \ {t}, limit, offset - 1)
               ELSE { <<t.row>> \o rest : rest \in OrderLimitOffset(rows \ {t}, limit - 1, 0) }
               : t \in Top(rows) }

NoSearch == [ called |-> FALSE ]

\* the store rejects a negative LIMIT or OFFSET; any query may fail besides
QueryFails(limit, offset, storeFails) == storeFails \/ limit < 0 \/ offset < 0

\* GlobalSearch: the query is always issued; a failed query gives (nil, error)
GlobalSearchCall(username, globalAdmin, searchText, limit, offset, storeFails) ==
  IF QueryFails(limit, offset, storeFails)
  THEN { [ called |-> TRUE, username |-> username, globalAdmin |-> globalAdmin,
           search |-> searchText, limit |-> limit, offset |-> offset,
           queried |-> TRUE, storeFailed |-> TRUE, result |-> <<>>, err |-> "select error" ] }
  ELSE { [ called |-> TRUE, username |-> username, globalAdmin |-> globalAdmin,
           search |-> searchText, limit |-> limit, offset |-> offset,
           queried |-> TRUE, storeFailed |-> FALSE, result |-> page, err |-> "nil" ] :
         page \in OrderLimitOffset(Selected(username, globalAdmin, searchText), limit, offset) }

NoCall == [ fn |-> "none", username |-> "", organizationID |-> 0,
            limit |-> 0, offset |-> 0, search |-> <<>> ]

IdleList ==
  [ pc |-> "idle", req |-> [ OrganizationID |-> 0, Limit |-> 0, Offset |-> 0, Search |-> <<>> ],
    isAdmin |-> FALSE, username |-> "", pageCall |-> NoCall, countCall |-> NoCall,
    apps |-> <<>>, matchedAtPage |-> 0, wrote |-> 0, reads |-> 0,
    pageFailed |-> FALSE, countFailed |-> FALSE,
    ctx |-> "none", resp |-> Null, err |-> "nil" ]

\* no operation has returned since the last search or listing
NoOp == [ name |-> "none", valid |-> TRUE, steps |-> <<>>, err |-> "nil",
          resp |-> Null, wrote |-> FALSE, changed |-> FALSE ]

\* no call has been observed on the store since it was last written
Quiet == search = NoSearch /\ list = IdleList /\ (op = NoOp \/ op.wrote)

GlobalSearch ==
  /\ Quiet
  /\ \E username \in Usernames, globalAdmin \in BOOLEAN, searchText \in Queries,
        limit \in Limits, offset \in Offsets, storeFails \in BOOLEAN :
       search' \in GlobalSearchCall(username, globalAdmin, searchText, limit, offset, storeFails)
  /\ op' = NoOp
  /\ UNCHANGED <<db, nextAppID, later, list>>

\* what a caller asks next: the next page, the double page, the same page as an admin
FollowUps ==
  { [ username |-> search.username, globalAdmin |-> search.globalAdmin,
      limit |-> search.limit, offset |-> search.limit ],
    [ username |-> search.username, globalAdmin |-> search.globalAdmin,
      limit |-> 2 * search.limit, offset |-> 0 ] }
  \cup { [ username |-> "bob", globalAdmin |-> TRUE, limit |-> search.limit, offset |-> 0 ] :
          x \in { y \in {search} : ~y.globalAdmin } }

GlobalSearchAgain ==
  /\ search.called /\ search.err = "nil" /\ search.offset = 0
  /\ Len(later) < MaxFollowUps
  /\ \E f \in FollowUps :
       /\ \A i \in 1..Len(later) :
            <<later[i].username, later[i].globalAdmin, later[i].limit, later[i].offset>>
              # <<f.username, f.globalAdmin, f.limit, f.offset>>
       /\ \E r \in GlobalSearchCall(f.username, f.globalAdmin, search.search, f.limit, f.offset, FALSE) :
            later' = Append(later, r)
  /\ UNCHANGED <<db, nextAppID, search, list, op>>

\* ------------------------------------------------------------ storage (applications)
RECURSIVE SortByID(_)
SortByID(rows) ==
  IF rows = {} THEN <<>>
  ELSE LET first == CHOOSE r \in rows : \A x \in rows : r.id <= x.id
       IN  <<first>> \o SortByID(rows \ {first})

Page(rows, limit, offset) ==
  SubSeq(SortByID(rows), offset + 1, IF offset + limit < Cardinality(rows) THEN offset + limit ELSE Cardinality(rows))

NameFilter(rows, searchText) ==
  { a \in rows : searchText = <<>> \/ ContainsFold(a.name, searchText) }

MemberOrgs(username) ==
  { ou.organization_id : ou \in { x \in organization_user :
      \E u \in user : u.id = x.user_id /\ u.username = username } }

AllApplications(searchText) == NameFilter(application, searchText)

UserApplications(username, organizationID, searchText) ==
  NameFilter({ a \in application :
                 /\ a.organization_id \in MemberOrgs(username)
                 /\ (organizationID = 0 \/ a.organization_id = organizationID) }, searchText)

OrganizationApplications(organizationID, searchText) ==
  NameFilter({ a \in application : a.organization_id = organizationID }, searchText)

\* ------------------------------------------------------ ApplicationAPI.List
ListSearches == { q \in Queries : \A i \in 1..Len(q) : q[i] \notin {"%", "_"} }
ListRequests ==
  [ OrganizationID : {0} \cup Orgs, Limit : Limits, Offset : Offsets, Search : ListSearches ]

\* faulty variant: a non-admin without an organization reads the unrestricted listing
ListPageCallUnscoped(req, isAdmin, username) ==
  IF req.OrganizationID = 0
  THEN [ fn |-> "GetApplications", username |-> "", organizationID |-> 0,
         limit |-> req.Limit, offset |-> req.Offset, search |-> req.Search ]
  ELSE IF isAdmin
       THEN [ fn |-> "GetApplicationsForOrganizationID", username |-> "",
              organizationID |-> req.OrganizationID,
              limit |-> req.Limit, offset |-> req.Offset, search |-> req.Search ]
       ELSE [ fn |-> "GetApplicationsForUser", username |-> username,
              organizationID |-> req.OrganizationID,
              limit |-> req.Limit, offset |-> req.Offset, search |-> req.Search ]

\* the page read List issues, by branch
ListPageCall(req, isAdmin, username) ==
  IF req.OrganizationID = 0
  THEN IF isAdmin
       THEN [ fn |-> "GetApplications", username |-> "", organizationID |-> 0,
              limit |-> req.Limit, offset |-> req.Offset, search |-> req.Search ]
       ELSE [ fn |-> "GetApplicationsForUser", username |-> username, organizationID |-> 0,
              limit |-> req.Limit, offset |-> req.Offset, search |-> req.Search ]
  ELSE IF isAdmin
       THEN [ fn |-> "GetApplicationsForOrganizationID", username |-> "",
              organizationID |-> req.OrganizationID,
              limit |-> req.Limit, offset |-> req.Offset, search |-> req.Search ]
       ELSE [ fn |-> "GetApplicationsForUser", username |-> username,
              organizationID |-> req.OrganizationID,
              limit |-> req.Limit, offset |-> req.Offset, search |-> req.Search ]

\* faulty variant: the count of the non-admin branch of one organization is taken
\* over every organization of the user
ListCountCallNoOrg(req, isAdmin, username) ==
  IF isAdmin
  THEN IF req.OrganizationID = 0
       THEN [ fn |-> "GetApplicationCount", username |-> "", organizationID |-> 0,
              limit |-> 0, offset |-> 0, search |-> req.Search ]
       ELSE [ fn |-> "GetApplicationCountForOrganizationID", username |-> "",
              organizationID |-> req.OrganizationID,
              limit |-> 0, offset |-> 0, search |-> req.Search ]
  ELSE [ fn |-> "GetApplicationCountForUser", username |-> username, organizationID |-> 0,
         limit |-> 0, offset |-> 0, search |-> req.Search ]

\* faulty variant: the count is taken without the search filter
ListCountCallNoSearch(req, isAdmin, username) ==
  IF isAdmin
  THEN IF req.OrganizationID = 0
       THEN [ fn |-> "GetApplicationCount", username |-> "", organizationID |-> 0,
              limit |-> 0, offset |-> 0, search |-> <<>> ]
       ELSE [ fn |-> "GetApplicationCountForOrganizationID", username |-> "",
              organizationID |-> req.OrganizationID,
              limit |-> 0, offset |-> 0, search |-> <<>> ]
  ELSE [ fn |-> "GetApplicationCountForUser", username |-> username,
         organizationID |-> req.OrganizationID,
         limit |-> 0, offset |-> 0, search |-> <<>> ]

\* the count read List issues, by branch
ListCountCall(req, isAdmin, username) ==
  IF req.OrganizationID = 0
  THEN IF isAdmin
       THEN [ fn |-> "GetApplicationCount", username |-> "", organizationID |-> 0,
              limit |-> 0, offset |-> 0, search |-> req.Search ]
       ELSE [ fn |-> "GetApplicationCountForUser", username |-> username, organizationID |-> 0,
              limit |-> 0, offset |-> 0, search |-> req.Search ]
  ELSE IF isAdmin
       THEN [ fn |-> "GetApplicationCountForOrganizationID", username |-> "",
              organizationID |-> req.OrganizationID,
              limit |-> 0, offset |-> 0, search |-> req.Search ]
       ELSE [ fn |-> "GetApplicationCountForUser", username |-> username,
              organizationID |-> req.OrganizationID,
              limit |-> 0, offset |-> 0, search |-> req.Search ]

\* the rows a storage call ranges over, before pagination
CallRows(call) ==
  IF call.fn \in {"GetApplications", "GetApplicationCount"}
  THEN AllApplications(call.search)
  ELSE IF call.fn \in {"GetApplicationsForUser", "GetApplicationCountForUser"}
       THEN UserApplications(call.username, call.organizationID, call.search)
       ELSE OrganizationApplications(call.organizationID, call.search)

\* a list call fails on a negative limit or offset, as every LIMIT/OFFSET query does
PageReadFails(call, storeFails) == QueryFails(call.limit, call.offset, storeFails)

\* errToRPCError of an error of the store or of the validator
errToRPCError(err) == "Unknown"

\* List up to and including the page read: validation, the principal, the page
ListAfterPage(req, ctx, isAdmin, username, storeFails) ==
  LET call == ListPageCall(req, isAdmin, username)
      begun == [ IdleList EXCEPT !.req = req, !.ctx = ctx ]
  IN  IF ctx = "invalid" THEN [ begun EXCEPT !.pc = "done", !.err = "Unauthenticated" ]
      ELSE IF ctx \in {"noAdmin", "noUsername"}
           THEN [ begun EXCEPT !.pc = "done", !.err = errToRPCError(ctx) ]
           ELSE IF PageReadFails(call, storeFails)
                THEN [ begun EXCEPT !.pc = "done", !.isAdmin = isAdmin, !.username = username,
                                    !.pageCall = call, !.reads = 1, !.pageFailed = TRUE,
                                    !.err = errToRPCError("select error") ]
                ELSE [ begun EXCEPT !.pc = "counting", !.isAdmin = isAdmin,
                                    !.username = username, !.pageCall = call, !.reads = 1,
                                    !.apps = Page(CallRows(call), call.limit, call.offset),
                                    !.matchedAtPage = Cardinality(CallRows(call)) ]

\* faulty variant: the error of the count read is dropped and the page is returned
ListAfterCountSwallow(l, storeFails) ==
  LET call == ListCountCall(l.req, l.isAdmin, l.username)
  IN  [ l EXCEPT !.pc = "done", !.countCall = call, !.reads = 2, !.countFailed = storeFails,
                 !.resp = Some([ TotalCount |-> IF storeFails THEN 0 ELSE Cardinality(CallRows(call)),
                                 Result |-> l.apps ]) ]

\* List from the count read to the response
ListAfterCount(l, storeFails) ==
  LET call == ListCountCall(l.req, l.isAdmin, l.username)
  IN  IF storeFails
      THEN [ l EXCEPT !.pc = "done", !.countCall = call, !.reads = 2, !.countFailed = TRUE,
                      !.err = errToRPCError("select error") ]
      ELSE [ l EXCEPT !.pc = "done", !.countCall = call, !.reads = 2,
                      !.resp = Some([ TotalCount |-> Cardinality(CallRows(call)),
                                      Result |-> l.apps ]) ]

ListPrincipals == { <<"alice", FALSE>>, <<"bob", FALSE>>, <<"bob", TRUE>> }

ListPage ==
  /\ Quiet
  /\ \E req \in ListRequests, ctx \in {"ok", "invalid", "noAdmin", "noUsername"},
        who \in ListPrincipals, storeFails \in BOOLEAN :
       list' = ListAfterPage(req, ctx, who[2], who[1], storeFails)
  /\ op' = NoOp
  /\ UNCHANGED <<db, nextAppID, search, later>>

ListCount ==
  /\ list.pc = "counting"
  /\ \E storeFails \in BOOLEAN : list' = ListAfterCount(list, storeFails)
  /\ UNCHANGED <<db, nextAppID, search, later, op>>

\* ------------------------------------------- ApplicationAPI: the operations
\* a write ends the life of a returned response and is counted by a List in flight
AfterWrite ==
  /\ list.pc = "counting" => list.wrote < MaxWritesBetweenReads
  /\ search' = NoSearch
  /\ later' = <<>>
  /\ list' = IF list.pc = "counting" THEN [ list EXCEPT !.wrote = @ + 1 ] ELSE IdleList

\* an operation that wrote nothing is one observed call, as a search is
AfterReturn == UNCHANGED <<search, later, list>>

AppIDs == 1..MaxApps
HTTPHandlerKind == "HTTP"
InfluxDBHandlerKind == "INFLUXDB"
\* handler configurations: "bad" does not pass conf.Validate()
HandlerConfigs == {"bad", "c1", "c2"}
\* in.Configuration of the InfluxDB requests may be nil
InfluxDBConfigurations == HandlerConfigs \cup {"nil"}

\* json.Marshal and json.Unmarshal of a handler configuration
Marshal(conf) == [ json |-> conf ]
Unmarshal(settings) == settings.json

\* what an operation returns and the tables it leaves, before any of its steps
Entered ==
  [ valid |-> TRUE, steps |-> <<>>, err |-> "nil", resp |-> Null, wrote |-> FALSE,
    application |-> application, device |-> device, integration |-> integration,
    nextAppID |-> nextAppID ]

\* a store call that returned an error, or a check that failed: return nil, err
Fails(r, step, err) == [ r EXCEPT !.steps = @ \o step, !.err = err ]

\* faulty variant: the error of the validator is ignored and the operation goes on
ValidateIgnored(valid, rest) ==
  [ rest EXCEPT !.valid = valid, !.steps = <<"Validate">> \o @ ]

\* if err := a.validator.Validate(ctx, ...); err != nil {
\*     return nil, grpc.Errorf(codes.Unauthenticated, ...) }
Validate(valid, rest) ==
  IF ~valid
  THEN [ Entered EXCEPT !.valid = FALSE, !.steps = <<"Validate">>, !.err = "Unauthenticated" ]
  ELSE [ rest EXCEPT !.steps = <<"Validate">> \o @ ]

\* storage.CreateApplication
CreateApplication(r, name, organizationID, storeFails) ==
  IF storeFails THEN Fails(r, <<"CreateApplication">>, errToRPCError("insert error"))
  ELSE [ r EXCEPT !.steps = @ \o <<"CreateApplication">>, !.wrote = TRUE,
                  !.application = @ \cup { [ id |-> r.nextAppID, name |-> name,
                                             organization_id |-> organizationID ] },
                  !.nextAppID = @ + 1,
                  !.resp = Some(r.nextAppID) ]

\* storage.GetApplication: the row of the id, or an error
GetApplication(r, id, storeFails) ==
  IF storeFails \/ ~\E a \in r.application : a.id = id
  THEN Fails(r, <<"GetApplication">>, errToRPCError("select error"))
  ELSE [ r EXCEPT !.steps = @ \o <<"GetApplication">>,
                  !.resp = Some(CHOOSE a \in r.application : a.id = id) ]

\* storage.UpdateApplication
UpdateApplication(r, app, storeFails) ==
  IF storeFails THEN Fails(r, <<"UpdateApplication">>, errToRPCError("update error"))
  ELSE [ r EXCEPT !.steps = @ \o <<"UpdateApplication">>, !.wrote = TRUE,
                  !.application = { a \in @ : a.id # app.id } \cup {app},
                  !.resp = Null ]

\* storage.Transaction(storage.DeleteApplication): the application goes, and
\* the devices and the integrations that refer to it
DeleteApplication(r, id, storeFails) ==
  IF storeFails \/ ~\E a \in r.application : a.id = id
  THEN Fails(r, <<"DeleteApplication">>, errToRPCError("delete error"))
  ELSE [ r EXCEPT !.steps = @ \o <<"DeleteApplication">>, !.wrote = TRUE,
                  !.application = { a \in @ : a.id # id },
                  !.device = { d \in @ : d.application_id # id },
                  !.integration = { i \in @ : i.application_id # id } ]

\* storage.CreateIntegration: one integration of a kind per application
CreateIntegration(r, row, storeFails) ==
  IF \/ storeFails
     \/ ~\E a \in r.application : a.id = row.application_id
     \/ \E i \in r.integration : i.application_id = row.application_id /\ i.kind = row.kind
  THEN Fails(r, <<"CreateIntegration">>, errToRPCError("insert error"))
  ELSE [ r EXCEPT !.steps = @ \o <<"CreateIntegration">>, !.wrote = TRUE,
                  !.integration = @ \cup {row} ]

\* storage.GetIntegrationByApplicationID
GetIntegrationByApplicationID(r, id, kind, storeFails) ==
  IF storeFails \/ ~\E i \in r.integration : i.application_id = id /\ i.kind = kind
  THEN Fails(r, <<"GetIntegrationByApplicationID">>, errToRPCError("select error"))
  ELSE [ r EXCEPT !.steps = @ \o <<"GetIntegrationByApplicationID">>,
                  !.resp = Some(CHOOSE i \in r.integration :
                                  i.application_id = id /\ i.kind = kind) ]

\* storage.UpdateIntegration
UpdateIntegration(r, row, storeFails) ==
  IF storeFails THEN Fails(r, <<"UpdateIntegration">>, errToRPCError("update error"))
  ELSE [ r EXCEPT !.steps = @ \o <<"UpdateIntegration">>, !.wrote = TRUE,
                  !.integration = { i \in @ : ~(i.application_id = row.application_id
                                                /\ i.kind = row.kind) } \cup {row},
                  !.resp = Null ]

\* storage.DeleteIntegration
DeleteIntegration(r, row, storeFails) ==
  IF storeFails THEN Fails(r, <<"DeleteIntegration">>, errToRPCError("delete error"))
  ELSE [ r EXCEPT !.steps = @ \o <<"DeleteIntegration">>, !.wrote = TRUE,
                  !.integration = @ \ {row}, !.resp = Null ]

\* storage.GetIntegrationsForApplicationID
GetIntegrationsForApplicationID(r, id, storeFails) ==
  IF storeFails THEN Fails(r, <<"GetIntegrationsForApplicationID">>, errToRPCError("select error"))
  ELSE [ r EXCEPT !.steps = @ \o <<"GetIntegrationsForApplicationID">>,
                  !.resp = Some({ i.kind : i \in { x \in r.integration : x.application_id = id } }) ]

\* ApplicationAPI.Create
CreateReturns(valid, name, organizationID, failAt) ==
  Validate(valid, CreateApplication(Entered, name, organizationID, failAt = 1))

\* ApplicationAPI.Get
GetReturns(valid, id, failAt) ==
  Validate(valid, GetApplication(Entered, id, failAt = 1))

\* ApplicationAPI.Update: the application is read, its fields are set, it is written
UpdateReturns(valid, id, name, failAt) ==
  Validate(valid,
    LET got == GetApplication(Entered, id, failAt = 1)
    IN  IF got.err # "nil" THEN got
        ELSE UpdateApplication(got, [ got.resp[1] EXCEPT !.name = name ], failAt = 2))

\* ApplicationAPI.Delete
DeleteReturns(valid, id, failAt) ==
  Validate(valid, DeleteApplication(Entered, id, failAt = 1))

\* Create<kind>Integration after the validation: conf.Validate(), json.Marshal,
\* storage.CreateIntegration
CreateIntegrationOfKind(kind, id, conf, failAt) ==
  IF conf = "nil" THEN Fails(Entered, <<>>, "InvalidArgument")
  ELSE IF conf = "bad" THEN Fails(Entered, <<>>, errToRPCError("invalid configuration"))
  ELSE CreateIntegration(Entered, [ application_id |-> id, kind |-> kind,
                                    settings |-> Marshal(conf) ], failAt = 1)

\* Get<kind>Integration after the validation: the read, json.Unmarshal
GetIntegrationOfKind(kind, id, failAt) ==
  LET got == GetIntegrationByApplicationID(Entered, id, kind, failAt = 1)
  IN  IF got.err # "nil" THEN got
      ELSE [ got EXCEPT !.resp = Some(Unmarshal(got.resp[1].settings)) ]

\* Update<kind>Integration after the validation: the read, conf.Validate(),
\* json.Marshal, storage.UpdateIntegration
UpdateIntegrationOfKind(kind, id, conf, failAt) ==
  IF conf = "nil" THEN Fails(Entered, <<>>, "InvalidArgument")
  ELSE LET got == GetIntegrationByApplicationID(Entered, id, kind, failAt = 1)
       IN  IF got.err # "nil" THEN got
           ELSE IF conf = "bad" THEN Fails(got, <<>>, errToRPCError("invalid configuration"))
           ELSE UpdateIntegration(got, [ got.resp[1] EXCEPT !.settings = Marshal(conf) ],
                                  failAt = 2)

\* Delete<kind>Integration after the validation: the read, storage.DeleteIntegration
DeleteIntegrationOfKind(kind, id, failAt) ==
  LET got == GetIntegrationByApplicationID(Entered, id, kind, failAt = 1)
  IN  IF got.err # "nil" THEN got
      ELSE DeleteIntegration(got, got.resp[1], failAt = 2)

\* the operation returns: its record is kept and the tables are as it left them
Return(name, r) ==
  /\ op' = [ name |-> name, valid |-> r.valid, steps |-> r.steps, err |-> r.err,
             resp |-> IF r.err = "nil" THEN r.resp ELSE Null,
             wrote |-> r.wrote,
             changed |-> <<r.application, r.integration>> # <<application, integration>> ]
  /\ application' = r.application
  /\ device' = r.device
  /\ integration' = r.integration
  /\ nextAppID' = r.nextAppID
  /\ IF r.wrote THEN AfterWrite ELSE Quiet /\ AfterReturn
  /\ UNCHANGED <<user, organization, organization_user, gateway>>

Create ==
  \E r \in { CreateReturns(valid, name, organizationID, failAt) :
               valid \in BOOLEAN, name \in AppNames, organizationID \in Orgs, failAt \in 0..1 } :
    /\ r.nextAppID <= MaxApps + 1
    /\ Return("Create", r)

Get ==
  \E r \in { GetReturns(valid, id, failAt) :
               valid \in BOOLEAN, id \in AppIDs, failAt \in 0..1 } :
    Return("Get", r)

Update ==
  \E r \in { UpdateReturns(valid, id, name, failAt) :
               valid \in BOOLEAN, id \in AppIDs, name \in AppNames, failAt \in 0..2 } :
    Return("Update", r)

Delete ==
  \E r \in { DeleteReturns(valid, id, failAt) :
               valid \in BOOLEAN, id \in AppIDs, failAt \in 0..1 } :
    Return("Delete", r)

CreateHTTPIntegration ==
  \E r \in { Validate(valid, CreateIntegrationOfKind(HTTPHandlerKind, id, conf, failAt)) :
               valid \in BOOLEAN, id \in AppIDs, conf \in HandlerConfigs, failAt \in 0..1 } :
    Return("CreateHTTPIntegration", r)

GetHTTPIntegration ==
  \E r \in { Validate(valid, GetIntegrationOfKind(HTTPHandlerKind, id, failAt)) :
               valid \in BOOLEAN, id \in AppIDs, failAt \in 0..1 } :
    Return("GetHTTPIntegration", r)

UpdateHTTPIntegration ==
  \E r \in { Validate(valid, UpdateIntegrationOfKind(HTTPHandlerKind, id, conf, failAt)) :
               valid \in BOOLEAN, id \in AppIDs, conf \in HandlerConfigs, failAt \in 0..2 } :
    Return("UpdateHTTPIntegration", r)

DeleteHTTPIntegration ==
  \E r \in { Validate(valid, DeleteIntegrationOfKind(HTTPHandlerKind, id, failAt)) :
               valid \in BOOLEAN, id \in AppIDs, failAt \in 0..2 } :
    Return("DeleteHTTPIntegration", r)

CreateInfluxDBIntegration ==
  \E r \in { Validate(valid, CreateIntegrationOfKind(InfluxDBHandlerKind, id, conf, failAt)) :
               valid \in BOOLEAN, id \in AppIDs, conf \in InfluxDBConfigurations, failAt \in 0..1 } :
    Return("CreateInfluxDBIntegration", r)

GetInfluxDBIntegration ==
  \E r \in { Validate(valid, GetIntegrationOfKind(InfluxDBHandlerKind, id, failAt)) :
               valid \in BOOLEAN, id \in AppIDs, failAt \in 0..1 } :
    Return("GetInfluxDBIntegration", r)

UpdateInfluxDBIntegration ==
  \E r \in { Validate(valid, UpdateIntegrationOfKind(InfluxDBHandlerKind, id, conf, failAt)) :
               valid \in BOOLEAN, id \in AppIDs, conf \in InfluxDBConfigurations, failAt \in 0..2 } :
    Return("UpdateInfluxDBIntegration", r)

DeleteInfluxDBIntegration ==
  \E r \in { Validate(valid, DeleteIntegrationOfKind(InfluxDBHandlerKind, id, failAt)) :
               valid \in BOOLEAN, id \in AppIDs, failAt \in 0..2 } :
    Return("DeleteInfluxDBIntegration", r)

\* ListIntegrations: the kinds of the integrations of the application (the
\* store holds no integration of another kind)
ListIntegrations ==
  \E r \in { Validate(valid, GetIntegrationsForApplicationID(Entered, id, failAt = 1)) :
               valid \in BOOLEAN, id \in AppIDs, failAt \in 0..1 } :
    Return("ListIntegrations", r)

\* ------------------------------------------------------------ specification
InitTables ==
  /\ user = { [ id |-> 1, username |-> "alice" ], [ id |-> 2, username |-> "bob" ] }
  /\ organization = { [ id |-> 1, name |-> <<"a">> ], [ id |-> 2, name |-> <<"a", "B">> ] }
  /\ organization_user \in SUBSET [ organization_id : Orgs, user_id : {1, 2} ]
  /\ search = NoSearch
  /\ later = <<>>
  /\ list = IdleList
  /\ integration = {}
  /\ op = NoOp

\* the API starts on a store without applications
Init ==
  /\ InitTables
  /\ application = {}
  /\ device = {}
  /\ gateway = {}
  /\ nextAppID = 1

Next == GlobalSearch \/ ListPage \/ ListCount \/ Create \/ Update \/ Delete

Spec == Init /\ [][Next]_vars

InitApplications ==
  { apps \in SUBSET [ id : 1..MaxInitApps, name : AppNames, organization_id : Orgs ] :
      \A x, y \in apps : x.id = y.id => x = y }

InitGateways ==
  { {} } \cup { { [ mac |-> m, name |-> n, organization_id |-> o ] } :
                m \in EUIs, n \in GatewayNames, o \in Orgs }

InitDevices(apps) ==
  { {} } \cup { { [ dev_eui |-> e, name |-> n, application_id |-> a.id ] } :
                e \in EUIs, n \in DeviceNames, a \in apps }

\* a search runs on any store of the four kinds
InitSearch ==
  /\ InitTables
  /\ application \in InitApplications
  /\ device \in InitDevices(application)
  /\ gateway \in InitGateways
  /\ nextAppID = MaxInitApps + 1

NextSearch == GlobalSearch

SearchSpec == InitSearch /\ [][NextSearch]_vars

\* a caller pages through a store of organizations and gateways
InitPage ==
  /\ InitTables
  /\ application = {}
  /\ device = {}
  /\ gateway \in InitGateways
  /\ nextAppID = 1

NextPage == GlobalSearch \/ GlobalSearchAgain

PageSpec == InitPage /\ [][NextPage]_vars

\* the operations of the API run on a store of at most one application
InitApi ==
  /\ user = { [ id |-> 1, username |-> "alice" ], [ id |-> 2, username |-> "bob" ] }
  /\ organization = { [ id |-> 1, name |-> <<"a">> ], [ id |-> 2, name |-> <<"a", "B">> ] }
  /\ organization_user = { [ organization_id |-> 1, user_id |-> 1 ] }
  /\ search = NoSearch
  /\ later = <<>>
  /\ list = IdleList
  /\ integration = {}
  /\ op = NoOp
  /\ application = {}
  /\ device = {}
  /\ gateway = {}
  /\ nextAppID = MaxApps

NextApi ==
  \/ Create \/ Get \/ Update \/ Delete \/ ListPage \/ ListCount
  \/ CreateHTTPIntegration \/ GetHTTPIntegration
  \/ UpdateHTTPIntegration \/ DeleteHTTPIntegration
  \/ CreateInfluxDBIntegration \/ GetInfluxDBIntegration
  \/ UpdateInfluxDBIntegration \/ DeleteInfluxDBIntegration
  \/ ListIntegrations

ApiSpec == InitApi /\ [][NextApi]_vars

\* ================================================================ claims
\* what identifies the entity of a hit
HitKey(row) ==
  IF row.kind = "device" THEN <<"device", row.device_dev_eui[1]>>
  ELSE IF row.kind = "gateway" THEN <<"gateway", row.gateway_mac[1]>>
  ELSE IF row.kind = "organization" THEN <<"organization", row.organization_id[1]>>
  ELSE <<"application", row.application_id[1]>>

Hits(call) == { call.result[i] : i \in 1..Len(call.result) }

\* a membership row links the username to the organization
HasMembership(username, organizationID) ==
  \E ou \in organization_user, u \in user :
    /\ u.username = username
    /\ u.id = ou.user_id
    /\ ou.organization_id = organizationID

Succeeded(call) == call.called /\ call.err = "nil"

\* C1: every hit a non-admin principal gets belongs to an organization that
\* has a membership row for the principal's username.
VisibilityContainment ==
  (Succeeded(search) /\ ~search.globalAdmin) =>
    \A h \in Hits(search) : HasMembership(search.username, h.organization_id[1])

\* a non-admin search that returned hits while a matching row of an
\* organization without membership exists
VisibilityContainmentWitness ==
  /\ Succeeded(search) /\ ~search.globalAdmin
  /\ Len(search.result) >= 2
  /\ \E t \in Selected(search.username, TRUE, search.search) :
       ~HasMembership(search.username, t.row.organization_id[1])

\* the entities the gate admits: visible, and the raw text occurs in the name
\* (or the hex identifier), letter case ignored
Admitted(username, globalAdmin, searchText) ==
  LET sees(organizationID) == globalAdmin \/ HasMembership(username, organizationID)
  IN  { <<"organization", o.id>> : o \in { o \in organization :
          sees(o.id) /\ ContainsFold(o.name, searchText) } }
      \cup { <<"application", a.id>> : a \in { a \in application :
          sees(a.organization_id) /\ ContainsFold(a.name, searchText) } }
      \cup { <<"gateway", g.mac>> : g \in { g \in gateway :
          /\ sees(g.organization_id)
          /\ (ContainsFold(g.name, searchText) \/ ContainsFold(encode(g.mac), searchText)) } }
      \cup { <<"device", d.dev_eui>> : d \in { d \in device :
          /\ \E a \in application : a.id = d.application_id /\ sees(a.organization_id)
          /\ (ContainsFold(d.name, searchText) \/ ContainsFold(encode(d.dev_eui), searchText)) } }

\* C2: a row is in the result, before pagination, iff it is visible and its
\* name (or hex identifier) contains the raw query text, letter case ignored;
\* the score admits and removes nothing.
InclusionGate ==
  Succeeded(search) =>
    /\ \A h \in Hits(search) :
         HitKey(h) \in Admitted(search.username, search.globalAdmin, search.search)
    /\ (search.offset = 0 /\ Len(search.result) < search.limit) =>
         \A k \in Admitted(search.username, search.globalAdmin, search.search) :
           \E h \in Hits(search) : HitKey(h) = k

\* C3 (as stated): what an admin gets for (q, L, 0) contains every hit a
\* non-admin gets for the same (q, L, 0).
AdminUnrestriction ==
  (Succeeded(search) /\ ~search.globalAdmin /\ search.offset = 0) =>
    \A i \in 1..Len(later) :
      (later[i].globalAdmin /\ Succeeded(later[i])
         /\ later[i].limit = search.limit /\ later[i].offset = 0) =>
        Hits(search) \subseteq Hits(later[i])

\* the rows that match q for an admin: those of every organization
AdminMatches(call) == Selected(call.username, TRUE, call.search)

\* C3 (amended): when no more than L rows match q over all organizations, what
\* an admin gets for (q, L, 0) contains every hit a non-admin gets for the
\* same (q, L, 0), and the matching organizations without any membership row.
AdminUnrestrictionUntruncated ==
  (Succeeded(search) /\ search.offset = 0) =>
    \A i \in 1..Len(later) :
      (later[i].globalAdmin /\ Succeeded(later[i])
         /\ later[i].limit = search.limit /\ later[i].offset = 0
         /\ Cardinality(AdminMatches(later[i])) <= later[i].limit) =>
        /\ ~search.globalAdmin => Hits(search) \subseteq Hits(later[i])
        /\ \A o \in organization :
             ilike(o.name, LikePattern(search.search)) =>
               \E h \in Hits(later[i]) : HitKey(h) = <<"organization", o.id>>

\* a non-admin got hits, and the admin asking the same got them and a hit of
\* an organization that has no membership row at all
AdminUnrestrictionWitness ==
  /\ Succeeded(search) /\ ~search.globalAdmin /\ search.offset = 0
  /\ search.result # <<>>
  /\ \E i \in 1..Len(later) :
       /\ later[i].globalAdmin /\ Succeeded(later[i])
       /\ later[i].limit = search.limit /\ later[i].offset = 0
       /\ Cardinality(AdminMatches(later[i])) <= later[i].limit
       /\ \E h \in Hits(later[i]) :
            \A ou \in organization_user : ou.organization_id # h.organization_id[1]

\* C4: a page is in descending score order, and it is the slice
\* offset+1 .. offset+limit of the merged rows of all four kinds in that order.
MonotonicRanking ==
  Succeeded(search) =>
    LET merged == { t.row : t \in Selected(search.username, search.globalAdmin, search.search) }
        page == search.result
        rest == Cardinality(merged) - search.offset
    IN  /\ \A i, j \in 1..Len(page) : i < j => ~ScoreLess(page[i].score, page[j].score)
        /\ Len(page) = IF rest <= 0 THEN 0 ELSE IF rest < search.limit THEN rest ELSE search.limit
        /\ \A i \in 1..Len(page) :
             /\ page[i] \in merged
             /\ Cardinality({ r \in merged : ScoreLess(page[i].score, r.score) }) <= search.offset + i - 1
             /\ Cardinality({ r \in merged : ~ScoreLess(r.score, page[i].score) }) >= search.offset + i

\* a page past the first row that holds hits of two kinds with different scores
MonotonicRankingWitness ==
  /\ Succeeded(search) /\ search.offset > 0
  /\ \E i, j \in 1..Len(search.result) :
       /\ i < j
       /\ search.result[i].kind # search.result[j].kind
       /\ ScoreLess(search.result[j].score, search.result[i].score)

SameCaller(a, b) ==
  a.username = b.username /\ a.globalAdmin = b.globalAdmin /\ a.search = b.search

\* C5: with no write in between, the page (L, 0) followed by the page (L, L)
\* is the page (2L, 0).
PaginationComposition ==
  (Succeeded(search) /\ search.offset = 0) =>
    \A i, j \in 1..Len(later) :
      ( /\ Succeeded(later[i]) /\ SameCaller(search, later[i])
        /\ later[i].limit = search.limit /\ later[i].offset = search.limit
        /\ Succeeded(later[j]) /\ SameCaller(search, later[j])
        /\ later[j].limit = 2 * search.limit /\ later[j].offset = 0 ) =>
        search.result \o later[i].result = later[j].result

\* the scope of a storage call: which rows it ranges over
CallScope(call) ==
  << IF call.fn \in {"GetApplications", "GetApplicationCount"} THEN "all"
     ELSE IF call.fn \in {"GetApplicationsForUser", "GetApplicationCountForUser"} THEN "user"
     ELSE "organization",
     call.username, call.organizationID, call.search >>

Responded == list.pc = "done" /\ list.resp # Null

\* C6: in each branch the count read has the username, organization id and
\* search filter of the page read, and with no write in between TotalCount is
\* the length of the listing with limit = TotalCount and offset = 0.
CountListConsistency ==
  Responded =>
    /\ CallScope(list.countCall) = CallScope(list.pageCall)
    /\ list.pageCall.organizationID = list.req.OrganizationID
    /\ list.pageCall.search = list.req.Search
    /\ list.wrote = 0 =>
         list.resp[1].TotalCount =
           Len(Page(CallRows(list.pageCall), list.resp[1].TotalCount, 0))

\* a filtered listing in one organization whose page is shorter than its count
CountListConsistencyWitness ==
  /\ Responded /\ list.wrote = 0
  /\ list.req.OrganizationID # 0 /\ list.req.Search # <<>>
  /\ list.resp[1].TotalCount = 2
  /\ Len(list.resp[1].Result) = 1

\* the applications of the organizations the username is a member of
MemberApplications(username, searchText) ==
  { a \in application :
      /\ HasMembership(username, a.organization_id)
      /\ (searchText = <<>> \/ ContainsFold(a.name, searchText)) }

\* C7: for a non-admin, List reads through the user-scoped queries with the
\* principal's username, and with OrganizationID = 0 the listing and the count
\* cover the applications of every organization the principal is a member of.
ScopedListing ==
  (list.reads > 0 /\ ~list.isAdmin) =>
    /\ list.pageCall.fn = "GetApplicationsForUser"
    /\ list.pageCall.username = list.username
    /\ list.pageCall.organizationID = list.req.OrganizationID
    /\ list.reads = 2 =>
         /\ list.countCall.fn = "GetApplicationCountForUser"
         /\ list.countCall.username = list.username
         /\ list.countCall.organizationID = list.req.OrganizationID
    /\ (Responded /\ list.wrote = 0 /\ list.req.OrganizationID = 0) =>
         LET expected == MemberApplications(list.username, list.req.Search)
             got == { list.resp[1].Result[i] : i \in 1..Len(list.resp[1].Result) }
         IN  /\ list.resp[1].TotalCount = Cardinality(expected)
             /\ got \subseteq expected
             /\ (list.req.Offset = 0 /\ list.req.Limit >= Cardinality(expected)) => got = expected

\* a non-admin member of two organizations lists the applications of both,
\* while an application of the store is outside the listing
ScopedListingWitness ==
  /\ Responded /\ ~list.isAdmin /\ list.req.OrganizationID = 0 /\ list.wrote = 0
  /\ list.resp[1].TotalCount = 2
  /\ Len(list.resp[1].Result) = 2
  /\ list.resp[1].Result[1].organization_id # list.resp[1].Result[2].organization_id

NegativeSearch == search.called /\ (search.limit < 0 \/ search.offset < 0)
NegativeList ==
  list.pc = "done" /\ list.err # "Unauthenticated" /\ list.pageCall.fn # "none"
    /\ (list.req.Limit < 0 \/ list.req.Offset < 0)

\* C8: a negative limit or offset is rejected at once with InvalidArgument, by
\* GlobalSearch and by List, before any query and without a result.
NegativePaginationRejected ==
  /\ NegativeSearch =>
       search.err = "InvalidArgument" /\ ~search.queried /\ search.result = <<>>
  /\ NegativeList =>
       list.err = "InvalidArgument" /\ list.reads = 0 /\ list.resp = Null

\* C9: a failed store query of GlobalSearch gives an error and no result; a
\* failed page or count read of List gives an error and no response, so items
\* never come without a count nor a count without items.
StoreFailuresSurface ==
  /\ (search.called /\ search.storeFailed) => search.err # "nil" /\ search.result = <<>>
  /\ (search.called /\ ~search.storeFailed) => search.err = "nil"
  /\ (list.pc = "done" /\ (list.pageFailed \/ list.countFailed)) =>
       list.err # "nil" /\ list.resp = Null
  /\ list.pc = "done" => (list.err = "nil" <=> list.resp # Null)
  /\ Responded => list.reads = 2 /\ list.resp[1].Result = list.apps

\* the count read failed after a page read that returned applications
StoreFailuresSurfaceWitness ==
  /\ list.pc = "done" /\ list.countFailed /\ ~list.pageFailed
  /\ list.apps # <<>>
  /\ list.resp = Null /\ list.err = "Unknown"

\* C10: with no write between the page read and the count read, TotalCount is
\* the number of applications that matched when the page was read; a write
\* between the two reads can make them differ.
NoSkewWithoutWrite ==
  (Responded /\ list.wrote = 0) => list.resp[1].TotalCount = list.matchedAtPage

\* a write landed between the two reads and the count differs from the match
ReadSkewWitness ==
  /\ Responded /\ list.wrote > 0
  /\ list.reads = 2
  /\ list.resp[1].TotalCount # list.matchedAtPage

\* the merged rows of a call, before order by, limit and offset
Merged(call) == Selected(call.username, call.globalAdmin, call.search)

\* C11: in the result of GlobalSearch every device, gateway, organization and
\* application appears at most once, in the merged rows before pagination and
\* in the returned page, for every principal; an organization with several
\* members, which the left join repeats once per member, included.
NoDuplicateHits ==
  Succeeded(search) =>
    /\ \A x, y \in Merged(search) : HitKey(x.row) = HitKey(y.row) => x = y
    /\ \A i, j \in 1..Len(search.result) :
         HitKey(search.result[i]) = HitKey(search.result[j]) => i = j

\* a global admin got the organization and an entity of an organization that
\* has two members, so that the left join gave two joined rows for each
NoDuplicateHitsWitness ==
  /\ Succeeded(search) /\ search.globalAdmin
  /\ \E h, k \in Hits(search) :
       /\ h.kind = "organization" /\ k.kind # "organization"
       /\ k.organization_id = h.organization_id
       /\ Cardinality({ j \in LeftJoinUser([ id |-> h.organization_id[1] ]) : j.u # Null }) >= 2

\* the store calls of an operation, in the order it made them
StoreSteps(steps) == { i \in 1..Len(steps) : steps[i] # "Validate" }

\* C12: in every operation of ApplicationAPI the access validation is the
\* first step and precedes every store read and write; when it fails the
\* operation returns Unauthenticated, makes no store call, gives no response
\* and leaves the stored applications and integrations as they were.
AuthorizationPrecedesStoreAccess ==
  /\ op # NoOp =>
       /\ Len(op.steps) >= 1 /\ op.steps[1] = "Validate"
       /\ \A i \in StoreSteps(op.steps) : i > 1
       /\ ~op.valid =>
            /\ op.err = "Unauthenticated"
            /\ StoreSteps(op.steps) = {}
            /\ op.resp = Null
            /\ ~op.wrote /\ ~op.changed
  /\ list.pc # "idle" =>
       /\ list.reads > 0 => list.ctx = "ok"
       /\ list.ctx = "invalid" =>
            /\ list.err = "Unauthenticated"
            /\ list.reads = 0 /\ list.pageCall = NoCall /\ list.countCall = NoCall
            /\ list.resp = Null

\* the update of an HTTP integration was refused while the application has one
AuthorizationPrecedesStoreAccessWitness ==
  /\ op.name = "UpdateHTTPIntegration" /\ ~op.valid
  /\ \E i \in integration, a \in application :
       i.kind = HTTPHandlerKind /\ i.application_id = a.id

====
